---- MODULE Spec2Model ----
(***************************************************************************)
(* Image processing workflow (workflows/image_processing.py) and the three *)
(* HTTP routes that start and query it (routes/images.py).                 *)
(*                                                                         *)
(* A workflow is one run of ImageProcessingWorkflow.run.  The durable      *)
(* runtime executes each activity under the RetryPolicy given at the call  *)
(* site and resumes the coroutine with the activity's result or with an    *)
(* ActivityError once the attempts are used up.  The outcome the runtime   *)
(* records for each scheduled activity is kept in the workflow's `steps`.  *)
(***************************************************************************)
EXTENDS Integers, Sequences, FiniteSets, TLC

VARIABLES wf, lykdat, resp, images

vars == <<wf, lykdat, resp, images>>

----------------------------------------------------------------------------
(* Bounds of the model *)

\* number of workflows started
MaxWorkflows == 2

\* clock ticks over which a pending result request is observed
MaxWait == 2

\* number of documents created through POST /images
MaxImages == 2

----------------------------------------------------------------------------
(* Values *)

\* urls offered to the process route: a well-formed one, and two HttpUrl rejects
Urls == {"https://x/a.jpg", "not-a-url", ""}

\* urls given to workflows started directly
WorkflowUrls == {"https://x/a.jpg", ""}

\* IsHttpUrl, had the url field been a plain required string: anything but
\* the empty string passes
IsHttpUrl_non_empty(u) == u # ""

\* pydantic HttpUrl validation (scheme http/https and a host)
IsHttpUrl(u) == u \in {"https://x/a.jpg"}

\* workflow ids are 1..Len(wf); 0 and the ids not yet started are unknown
QueryIds == 0..MaxWorkflows

KnownWorkflow(id) == id \in 1..Len(wf)

\* Python values that reach workflow.execute_activity as its first argument
PyFunction(name) == [type |-> "function", name |-> name]

PyBool(b) == [type |-> "bool", value |-> b]

\* the value a name evaluates to inside ImageProcessingWorkflow.run: the
\* parameter run_similarity_search (a bool) shadows the module level activity
\* function of the same name; store_image_metadata is not shadowed
RunScopeLookup(name, w) ==
    IF name = "run_similarity_search"
    THEN PyBool(w.run_similarity_search)
    ELSE PyFunction(name)

\* workflow.execute_activity takes an activity function; a bool is neither
\* callable nor a name, and raises TypeError before an activity is scheduled
IsActivityReference(v) == v.type = "function"

\* attributes of class uuid.UUID (the uuid4 factory is a function of module
\* uuid, not an attribute of the class)
UUIDClassAttributes ==
    {"bytes", "bytes_le", "fields", "hex", "int", "urn", "variant", "version"}

\* attributes of class ImageProcessingWorkflow
WorkflowClassAttributes == {"run"}

\* app.state.temporal_client is set by init_temporal before requests are served
HasTemporalClient == TRUE

----------------------------------------------------------------------------
(* Retry policies *)

\* RetryPolicy(maximum_attempts=3) of the store_image_metadata call
StoreMaximumAttempts == 3

\* RetryPolicy(maximum_attempts=3) of the run_similarity_search call
SearchMaximumAttempts == 3

maximum_attempts(activity) ==
    IF activity = "store_image_metadata" THEN StoreMaximumAttempts
    ELSE SearchMaximumAttempts

----------------------------------------------------------------------------
(* The workflow's return values *)

NoResult == [status |-> "running"]

\* the dict returned at the end of the try block
CompletedResult(image_id, url, similarity_completed) ==
    [image_id |-> image_id,
     url |-> url,
     similarity_search_completed |-> similarity_completed,
     status |-> "completed"]

\* the dict returned by the outer except block
FailedResult(url, e) ==
    [url |-> url,
     similarity_search_completed |-> FALSE,
     error |-> e,
     status |-> "failed"]

\* the runtime's record of one scheduled activity that has ended
StepOutcome(name, status, attempts_used, detail) ==
    [step_name |-> name, status |-> status,
     attempts_used |-> attempts_used, detail |-> detail]

Returned(w, result) ==
    [w EXCEPT !.pc = "returned", !.attempt = 0, !.result = result]

Scheduled(w, activity) ==
    [w EXCEPT !.pc = activity, !.attempt = 1]

----------------------------------------------------------------------------
(* ImageProcessingWorkflow.run, from one suspension point to the next *)

\* Step 2 and the final return: entered when store_image_metadata has
\* returned image_id
RunStep2(w, image_id) ==
    LET w1 == [w EXCEPT !.image_id = image_id] IN
    IF w.run_similarity_search
    THEN IF IsActivityReference(RunScopeLookup("run_similarity_search", w))
         THEN Scheduled(w1, "run_similarity_search")
         ELSE \* TypeError, caught by the inner except: similarity_completed
              \* keeps its initial False
              Returned(w1, CompletedResult(image_id, w.url, FALSE))
    ELSE Returned(w1, CompletedResult(image_id, w.url, FALSE))

\* resume after the pending activity returned `value`
ResumeWithResult(w, value) ==
    IF w.pc = "store_image_metadata"
    THEN RunStep2(w, value)
    ELSE \* run_similarity_search returned: similarity_completed = True
         Returned(w, CompletedResult(w.image_id, w.url, TRUE))

\* ResumeWithError, had the outer except tolerated the failure of the first
\* step the way the inner except tolerates that of the second
ResumeWithError_tolerant(w, e) ==
    Returned(w, CompletedResult(w.image_id, w.url, FALSE))

\* ResumeWithError, had run() no except block around the first step: the
\* ActivityError leaves run() unhandled and no value is returned
ResumeWithError_unhandled(w, e) ==
    IF w.pc = "store_image_metadata"
    THEN [w EXCEPT !.pc = "raised", !.attempt = 0]
    ELSE Returned(w, CompletedResult(w.image_id, w.url, FALSE))

\* resume after the pending activity raised ActivityError e
ResumeWithError(w, e) ==
    IF w.pc = "store_image_metadata"
    THEN Returned(w, FailedResult(w.url, e))
    ELSE \* inner except: logged, the workflow continues
         Returned(w, CompletedResult(w.image_id, w.url, FALSE))

\* the first workflow task: run() up to its first await
start_workflow(url, run_similarity_search) ==
    LET w0 == [url |-> url,
               run_similarity_search |-> run_similarity_search,
               pc |-> "init", attempt |-> 0,
               steps |-> <<>>,
               calls |-> [store_image_metadata |-> 0, run_similarity_search |-> 0],
               image_id |-> <<>>,
               result |-> NoResult]
    IN IF IsActivityReference(RunScopeLookup("store_image_metadata", w0))
       THEN Scheduled(w0, "store_image_metadata")
       ELSE Returned(w0, FailedResult(url, "TypeError"))

----------------------------------------------------------------------------
(* Activities *)

\* Running, had activity events still been delivered after run() returned
Running_after_return(w) == w.pc # "init"

\* the workflow is suspended in `await workflow.execute_activity(...)`
Running(w) == w.pc \in {"store_image_metadata", "run_similarity_search"}

\* the id uuid4 mints for the ImagesDoc built by attempt k of workflow id
\* (or, with id 0, for the k-th document built by the create_image route):
\* fresh for every document built
uuid4(id, k) == <<id, k>>

\* ImagesDoc(id=uuid4(), url, title, description, tags)
ImagesDoc(id, url, title, description, tags) ==
    [id |-> id, url |-> url, title |-> title, description |-> description,
     tags |-> tags]

\* the document attempt w.attempt of store_image_metadata builds from the
\* arguments of run (title and description default to "", passed as None)
ActivityDoc(id, w) ==
    ImagesDoc(uuid4(id, w.attempt), w.url, "None", "None", <<>>)

\* whether the body of the pending activity raises
ActivityBodyRaises(w) ==
    IF w.pc = "store_image_metadata"
    THEN ~IsHttpUrl(w.url)          \* ImagesDoc(url=url) fails validation
    ELSE lykdat = "fail"            \* search_by_image raises, re-raised

\* the value the pending activity returns
ActivityReturnValue(id, w) ==
    IF w.pc = "store_image_metadata"
    THEN ActivityDoc(id, w).id      \* str(image_doc.id)
    ELSE <<>>                       \* the search results (not used by run)

\* the activity function named by w.pc is called once more
Invoked(w) ==
    IF w.pc \in DOMAIN w.calls THEN [w EXCEPT !.calls[w.pc] = @ + 1] ELSE w

\* AttemptFailed, had the runtime compared the attempt count with <=, which
\* allows one attempt more
AttemptFailed_one_more(w, e) ==
    IF w.attempt <= maximum_attempts(w.pc)
    THEN [w EXCEPT !.attempt = @ + 1]
    ELSE ResumeWithError(
            [w EXCEPT !.steps = Append(@, StepOutcome(w.pc, "Failed", w.attempt, e))],
            e)

\* one attempt of the pending activity ended in failure `e`: the runtime
\* retries while attempts remain, and otherwise fails the activity
AttemptFailed(w, e) ==
    IF w.attempt < maximum_attempts(w.pc)
    THEN [w EXCEPT !.attempt = @ + 1]
    ELSE ResumeWithError(
            [w EXCEPT !.steps = Append(@, StepOutcome(w.pc, "Failed", w.attempt, e))],
            e)

AttemptSucceeded(id, w) ==
    ResumeWithResult(
        [w EXCEPT !.steps = Append(@, StepOutcome(w.pc, "Succeeded", w.attempt, "ok"))],
        ActivityReturnValue(id, w))

----------------------------------------------------------------------------
(* The HTTP client: its last response, or its pending result request *)

\* what the runtime holds about workflow `id` at the moment a route answers
Seen(id) ==
    IF ~KnownWorkflow(id) THEN "unknown"
    ELSE IF wf[id].pc = "returned" THEN "returned"
    ELSE "running"

NoResponse ==
    [route |-> "none", workflow_id |-> 0, status_code |-> 0, waited |-> 0,
     seen |-> "unknown", url |-> "n/a", body |-> NoResult]

\* a response of `route` about workflow `id`
Response(route, id, code, body) ==
    [route |-> route, workflow_id |-> id, status_code |-> code, waited |-> 0,
     seen |-> Seen(id), url |-> "n/a", body |-> body]

\* a response of the process route to the submission of `url`
ProcessResponse(url, id, code) ==
    [Response("process", id, code, NoResult) EXCEPT !.url = url]

\* what `await handle.result()` evaluates to: the workflow's return value
handle_result(w) == w.result

\* what handle.query(get_state) would evaluate to
handle_query_state(w) == [status |-> w.result.status, steps |-> w.steps]

\* a request to the result route about a known workflow that has not been
\* answered (status_code 0) and has waited for `waited` clock ticks
Pending(id, waited) ==
    [route |-> "result", workflow_id |-> id, status_code |-> 0, waited |-> waited,
     seen |-> "known", url |-> "n/a", body |-> NoResult]

IsPending(r) == r.route = "result" /\ r.status_code = 0

----------------------------------------------------------------------------
(* The images collection *)

\* ImagesCollection.upsert: the document replaces the one stored under its id
upsert(collection, doc) ==
    {d \in collection : d.id # doc.id} \cup {doc}

\* the collection after an attempt of the pending activity has run: neither
\* activity writes to it (store_image_metadata builds its ImagesDoc and
\* returns the id without calling ImagesCollection.upsert)
ActivityEffect(id, w) == images

----------------------------------------------------------------------------
Init ==
    /\ wf = <<>>
    /\ lykdat \in {"ok", "fail"}
    /\ resp = NoResponse
    /\ images = {}

\* a Temporal client starts ImageProcessingWorkflow.run under an unused id
StartWorkflow ==
    \E url \in WorkflowUrls, sim \in BOOLEAN :
        /\ Len(wf) < MaxWorkflows
        /\ wf' = Append(wf, start_workflow(url, sim))
        /\ UNCHANGED <<lykdat, resp, images>>

\* an attempt of the pending activity returns
ActivityCompletes ==
    \E id \in 1..Len(wf) :
        /\ Running(wf[id])
        /\ ~ActivityBodyRaises(wf[id])
        /\ wf' = [wf EXCEPT ![id] = AttemptSucceeded(id, Invoked(wf[id]))]
        /\ images' = ActivityEffect(id, wf[id])
        /\ UNCHANGED <<lykdat, resp>>

\* an attempt of the pending activity raises
ActivityRaises ==
    \E id \in 1..Len(wf) :
        /\ Running(wf[id])
        /\ ActivityBodyRaises(wf[id])
        /\ wf' = [wf EXCEPT ![id] = AttemptFailed(Invoked(wf[id]), "Activity task failed")]
        /\ images' = ActivityEffect(id, wf[id])
        /\ UNCHANGED <<lykdat, resp>>

\* an attempt of the pending activity exceeds start_to_close_timeout
ActivityTimesOut ==
    \E id \in 1..Len(wf) :
        /\ Running(wf[id])
        /\ wf' = [wf EXCEPT ![id] = AttemptFailed(Invoked(wf[id]), "Activity task timed out")]
        /\ images' = ActivityEffect(id, wf[id])
        /\ UNCHANGED <<lykdat, resp>>

\* POST /images/process
process_image_with_workflow ==
    \E url \in Urls :
        /\ ~IsPending(resp)
        /\ IF ~IsHttpUrl(url)
           THEN \* CreateImageRequest is rejected before the handler runs
                /\ resp' = ProcessResponse(url, 0, 422)
                /\ wf' = wf
           ELSE IF ~HasTemporalClient
           THEN /\ resp' = ProcessResponse(url, 0, 503)
                /\ wf' = wf
           ELSE IF "uuid4" \in UUIDClassAttributes
           THEN /\ Len(wf) < MaxWorkflows
                /\ wf' = Append(wf, start_workflow(url, TRUE))
                /\ resp' = ProcessResponse(url, Len(wf) + 1, 202)
           ELSE \* AttributeError, caught by the handler's except Exception
                /\ resp' = ProcessResponse(url, 0, 500)
                /\ wf' = wf
        /\ UNCHANGED <<lykdat, images>>

\* the answer of the status route about workflow id: <<status code, body>>
status_answer(id) ==
    IF ~HasTemporalClient
    THEN <<503, NoResult>>
    ELSE IF "get_state" \in WorkflowClassAttributes /\ KnownWorkflow(id)
    THEN <<200, handle_query_state(wf[id])>>
    ELSE \* AttributeError (or the query's RPC error), caught
         <<500, NoResult>>

\* GET /images/workflow/{workflow_id}/status
get_workflow_status ==
    \E id \in QueryIds :
        /\ ~IsPending(resp)
        /\ resp' = Response("status", id, status_answer(id)[1], status_answer(id)[2])
        /\ UNCHANGED <<wf, lykdat, images>>

\* GET /images/workflow/{workflow_id}/result: the request arrives
get_workflow_result ==
    \E id \in QueryIds :
        /\ ~IsPending(resp)
        /\ IF ~HasTemporalClient
           THEN resp' = Response("result", id, 503, NoResult)
           ELSE IF ~KnownWorkflow(id)
           THEN \* handle.result() raises the RPC error, caught
                resp' = Response("result", id, 500, NoResult)
           ELSE \* the handler awaits handle.result()
                resp' = Pending(id, 0)
        /\ UNCHANGED <<wf, lykdat, images>>

\* HandleResultReady, had handle.result() returned without waiting
HandleResultReady_at_once(w) == TRUE

\* whether `await handle.result()` can return
HandleResultReady(w) == w.pc = "returned"

\* `await handle.result()` returns and the route answers with the result
ResultReturns ==
    /\ IsPending(resp)
    /\ HandleResultReady(wf[resp.workflow_id])
    /\ resp' = Response("result", resp.workflow_id, 200,
                        handle_result(wf[resp.workflow_id]))
    /\ UNCHANGED <<wf, lykdat, images>>

\* time passes while `await handle.result()` is pending
Tick ==
    /\ IsPending(resp)
    /\ resp.waited < MaxWait
    /\ resp' = [resp EXCEPT !.waited = @ + 1]
    /\ UNCHANGED <<wf, lykdat, images>>

\* POST /images: create_image stores a new document under a fresh id (a step
\* of StorageSpec; it touches no workflow and no workflow route reads it)
create_image ==
    \E url \in Urls :
        /\ IsHttpUrl(url)
        /\ Cardinality(images) < MaxImages
        /\ images' = upsert(images,
                            ImagesDoc(uuid4(0, Cardinality(images) + 1), url,
                                      "None", "None", <<>>))
        /\ UNCHANGED <<wf, lykdat, resp>>

Next ==
    \/ StartWorkflow
    \/ ActivityCompletes
    \/ ActivityRaises
    \/ ActivityTimesOut
    \/ process_image_with_workflow
    \/ get_workflow_status
    \/ get_workflow_result
    \/ ResultReturns
    \/ Tick

Spec == Init /\ [][Next]_vars

----------------------------------------------------------------------------
(* Vocabulary of the claims *)

Workflows == 1..Len(wf)

Terminal(w) == w.pc = "returned"

StoreSucceeded(w) ==
    /\ Len(w.steps) >= 1
    /\ w.steps[1].step_name = "store_image_metadata"
    /\ w.steps[1].status = "Succeeded"

StoreFailed(w) ==
    /\ Len(w.steps) >= 1
    /\ w.steps[1].step_name = "store_image_metadata"
    /\ w.steps[1].status = "Failed"

SearchOutcomes(w, status) ==
    {i \in 1..Len(w.steps) :
        w.steps[i].step_name = "run_similarity_search" /\ w.steps[i].status = status}

Activities == {"store_image_metadata", "run_similarity_search"}

----------------------------------------------------------------------------
(* C1 *)

\* C1: a workflow whose store step succeeded, that was asked to search and
\* whose search collaborator fails every time, ends completed, with
\* similarity_search_completed false, no error, and exactly two step outcomes:
\* store_image_metadata Succeeded, then run_similarity_search Failed.
C1_SearchFailureRecorded ==
    \A id \in Workflows :
        LET w == wf[id] IN
        (Terminal(w) /\ StoreSucceeded(w) /\ w.run_similarity_search /\ lykdat = "fail")
        => /\ w.result.status = "completed"
           /\ w.result.similarity_search_completed = FALSE
           /\ "error" \notin DOMAIN w.result
           /\ Len(w.steps) = 2
           /\ w.steps[2].step_name = "run_similarity_search"
           /\ w.steps[2].status = "Failed"

----------------------------------------------------------------------------
(* C2 *)

\* C2: a workflow whose store step failed on every attempt of its retry
\* budget ends failed, with a non-empty error and similarity_search_completed
\* false; the search activity was not invoked even once and exactly one step
\* outcome is recorded.
C2_StoreFailureIsFatal ==
    \A id \in Workflows :
        LET w == wf[id] IN
        StoreFailed(w)
        => /\ Terminal(w)
           /\ w.result.status = "failed"
           /\ "error" \in DOMAIN w.result
           /\ w.result.error # ""
           /\ w.result.similarity_search_completed = FALSE
           /\ w.calls["run_similarity_search"] = 0
           /\ Len(w.steps) = 1

\* a workflow whose store step used up its three attempts, the last by timeout
C2_Witness ==
    \E id \in Workflows :
        /\ StoreFailed(wf[id])
        /\ wf[id].calls["store_image_metadata"] = StoreMaximumAttempts
        /\ wf[id].result.status = "failed"
        /\ wf[id].result.error = "Activity task timed out"

----------------------------------------------------------------------------
(* C3 *)

\* C3: in every terminal workflow similarity_search_completed is true exactly
\* when search was requested and the search step Succeeded; when the store
\* step succeeded, search was requested and the search collaborator works (no
\* search attempt failed), the flag is true; when search was not requested the
\* workflow is completed with the flag false, one step outcome and no search
\* attempt.
C3_FlagTracksSearch ==
    \A id \in Workflows :
        LET w == wf[id] IN
        Terminal(w)
        => /\ w.result.similarity_search_completed
                <=> (w.run_similarity_search /\ SearchOutcomes(w, "Succeeded") # {})
           /\ (StoreSucceeded(w) /\ w.run_similarity_search /\ lykdat = "ok"
                 /\ SearchOutcomes(w, "Failed") = {})
                => w.result.similarity_search_completed
           /\ (StoreSucceeded(w) /\ ~w.run_similarity_search)
                => /\ w.result.status = "completed"
                   /\ ~w.result.similarity_search_completed
                   /\ Len(w.steps) = 1
                   /\ w.calls["run_similarity_search"] = 0

----------------------------------------------------------------------------
(* C4 *)

\* C4: under a retry policy of n attempts an activity is never invoked more
\* than n times; while attempt k is pending it has been invoked k-1 times; a
\* Failed outcome is recorded only after exactly n invocations and carries
\* attempts_used = n; a Succeeded outcome with attempts_used = k means exactly
\* k invocations, in this and every later state.
C4_RetryBudget ==
    \A id \in Workflows :
        LET w == wf[id] IN
        /\ \A a \in Activities : w.calls[a] <= maximum_attempts(a)
        /\ Running(w) => /\ w.attempt \in 1..maximum_attempts(w.pc)
                         /\ w.calls[w.pc] = w.attempt - 1
        /\ \A i \in 1..Len(w.steps) :
              LET s == w.steps[i] IN
              /\ s.status = "Failed"
                    => /\ s.attempts_used = maximum_attempts(s.step_name)
                       /\ w.calls[s.step_name] = maximum_attempts(s.step_name)
              /\ s.status = "Succeeded"
                    => /\ s.attempts_used \in 1..maximum_attempts(s.step_name)
                       /\ w.calls[s.step_name] = s.attempts_used

\* one workflow failed after three invocations, another succeeded on its
\* second attempt and was not invoked again
C4_Witness ==
    \E i, j \in Workflows :
        /\ StoreFailed(wf[i])
        /\ wf[i].steps[1].attempts_used = StoreMaximumAttempts
        /\ wf[i].calls["store_image_metadata"] = StoreMaximumAttempts
        /\ StoreSucceeded(wf[j])
        /\ wf[j].steps[1].attempts_used = 2
        /\ wf[j].calls["store_image_metadata"] = 2
        /\ Terminal(wf[j])

----------------------------------------------------------------------------
(* C5 *)

\* C5: every well-formed submission to the process route (one that passes
\* request validation) is answered 202 with an id no workflow had before, and
\* starts exactly one workflow under that id, which is running and has no step
\* finished when the answer is given.
C5_SubmitStartsWorkflow ==
    [][(/\ resp' # resp
        /\ resp'.route = "process"
        /\ resp'.status_code # 422)
       => (/\ resp'.status_code = 202
           /\ ~KnownWorkflow(resp'.workflow_id)
           /\ Len(wf') = Len(wf) + 1
           /\ resp'.workflow_id = Len(wf')
           /\ Running(wf'[Len(wf')])
           /\ wf'[Len(wf')].steps = <<>>)]_vars

----------------------------------------------------------------------------
(* C7 *)

IsPrefix(s, t) == Len(s) <= Len(t) /\ SubSeq(t, 1, Len(s)) = s

\* C7: a status query about a workflow the runtime knows is answered 200 with
\* the workflow's phase and the step outcomes recorded so far, a prefix of the
\* workflow's step list.
C7_StatusOfKnownWorkflow ==
    (resp.route = "status" /\ resp.seen # "unknown")
    => /\ resp.status_code = 200
       /\ resp.body.status \in {"running", "completed", "failed"}
       /\ IsPrefix(resp.body.steps, wf[resp.workflow_id].steps)

----------------------------------------------------------------------------
(* C8 *)

\* C8 as claimed: a result request about a workflow that is still running is
\* answered (with StillRunning) once its wait has lasted the timeout, here
\* MaxWait ticks: it is never found still pending at that time.
C8_StillRunningOnTimeout ==
    (IsPending(resp) /\ Running(wf[resp.workflow_id]))
    => resp.waited < MaxWait

\* C8 amended: a result request about a known workflow gets no answer at all
\* while the workflow is running, however long it has waited (there is no
\* timeout and no StillRunning answer); its only answer is 200 with the
\* workflow's return value, given once the workflow has returned.
C8_ResultOnlyAfterReturn ==
    (resp.route = "result" /\ resp.seen # "unknown")
    => /\ resp.status_code \in {0, 200}
       /\ Running(wf[resp.workflow_id]) => IsPending(resp)
       /\ resp.status_code = 200
            => /\ Terminal(wf[resp.workflow_id])
               /\ resp.body = wf[resp.workflow_id].result
               /\ resp.body.status \in {"completed", "failed"}

\* a result request that has waited MaxWait ticks for a workflow on its last
\* attempt, and is still waiting
C8_Witness ==
    /\ IsPending(resp)
    /\ resp.waited = MaxWait
    /\ Running(wf[resp.workflow_id])
    /\ wf[resp.workflow_id].attempt = StoreMaximumAttempts

----------------------------------------------------------------------------
(* C9 *)

\* C9: a status or result query with an id the runtime does not know is
\* answered with the distinct not-found code 404, and leaves the workflows as
\* they were.
C9_UnknownIdIsNotFound ==
    [][(/\ resp' # resp
        /\ resp'.route \in {"status", "result"}
        /\ resp'.seen = "unknown")
       => (resp'.status_code = 404 /\ wf' = wf)]_vars

----------------------------------------------------------------------------
(* C10 *)

----------------------------------------------------------------------------
(* C11 *)

\* an activity event of some workflow: an attempt returns, raises or times out
ActivityEvent == ActivityCompletes \/ ActivityRaises \/ ActivityTimesOut

\* the steps of the runtime alone: workflows start and their activities run
\* (the routes only read the workflows)
RuntimeNext == StartWorkflow \/ ActivityEvent

\* the runtime ends every attempt: it returns, raises, or is cut off at
\* start_to_close_timeout
FairSpec == Init /\ [][RuntimeNext]_vars /\ WF_vars(ActivityEvent)

\* C11: every started workflow eventually returns, with status completed or
\* failed, whether its attempts return, raise or time out; a workflow that is
\* not suspended in an activity has returned a result (no failure leaves it
\* without one).
C11_EveryWorkflowReturns ==
    /\ \A id \in 1..MaxWorkflows :
          [](KnownWorkflow(id)
               => <>(/\ KnownWorkflow(id)
                     /\ Terminal(wf[id])
                     /\ wf[id].result.status \in {"completed", "failed"}))
    /\ [](\A id \in Workflows :
            \/ Running(wf[id])
            \/ /\ Terminal(wf[id])
               /\ wf[id].result.status \in {"completed", "failed"})

\* every workflow has returned: one failed on a timed out last attempt, one
\* failed on a raising last attempt, and none is left running
C11_Witness ==
    /\ Len(wf) = MaxWorkflows
    /\ \A id \in Workflows : Terminal(wf[id])
    /\ \E id \in Workflows : wf[id].result = FailedResult("https://x/a.jpg", "Activity task timed out")
    /\ \E id \in Workflows : wf[id].result = FailedResult("", "Activity task failed")

----------------------------------------------------------------------------
(* C12 *)

\* submissions whose url is empty or not a url
MalformedUrls == {"", "not-a-url"}

\* C12: a submission to the process route whose url is empty or malformed is
\* answered at once with the validation error 422, and the step that answers
\* it leaves the workflows as they were: no id is allocated, no workflow is
\* started and no activity is attempted for it.
C12_MalformedIsRejected ==
    [][(/\ resp' # resp
        /\ resp'.route = "process"
        /\ resp'.url \in MalformedUrls)
       => (/\ resp'.status_code = 422
           /\ resp'.workflow_id = 0
           /\ wf' = wf)]_vars

\* the empty url has been rejected while a workflow started earlier is still
\* in its first attempt
C12_Witness ==
    /\ resp.route = "process"
    /\ resp.url = ""
    /\ resp.status_code = 422
    /\ Len(wf) = 1
    /\ Running(wf[1])
    /\ wf[1].calls["store_image_metadata"] = 0

----------------------------------------------------------------------------
(* C13 *)

\* the runtime's steps together with the route that writes the collection
StorageNext == RuntimeNext \/ create_image

StorageSpec == Init /\ [][StorageNext]_vars

\* the documents whose id was minted by an attempt of workflow id
DocsOfWorkflow(id) == {d \in images : d.id[1] = id}

\* C13: when the store step of a workflow has Succeeded with id i, the
\* collection holds a document under key i with the submitted url, title,
\* description and tags, the workflow has left exactly one document in the
\* collection however many attempts it used, and i is the image_id of the
\* returned result.
C13_StoredUnderReturnedId ==
    \A id \in Workflows :
        LET w == wf[id] IN
        StoreSucceeded(w)
        => /\ \E d \in images :
                d = ImagesDoc(w.image_id, w.url, "None", "None", <<>>)
           /\ Cardinality(DocsOfWorkflow(id)) = 1
           /\ (Terminal(w) /\ w.result.status = "completed")
                => w.result.image_id = w.image_id

====
